---- MODULE Spec2Model ----
(***************************************************************************)
(* A model of the asynchronous scraper (scraperV2.py): map_urls over the   *)
(* seeds, scrapeSite over the mapped URLs with a pool of worker tasks on   *)
(* one asyncio.Queue, export_results_to_jsonl over the results; and of the *)
(* two Playwright render operations (scraperV2.fetch_with_playwright and   *)
(* sc.capture_high_detail_screenshot).                                     *)
(*                                                                         *)
(* URLs are strings.  Text that the code strips is a sequence of           *)
(* one-character strings.  An HTML text is modelled by the document the    *)
(* parser makes of it: its anchors' hrefs, its title string, its meta      *)
(* elements, its headings and its text runs.  An optional value (a tag     *)
(* that may be absent) is a sequence of length 0 or 1.                     *)
(***************************************************************************)
EXTENDS Integers, Sequences, FiniteSets, TLC

VARIABLES
    seeds,        \* the urls argument of map_urls (BASE_URLS in main)
    num_workers,  \* the num_workers argument of scrapeSite
    web,          \* what fetch returns for each seed (the web's answer)
    pc,           \* where main is
    mpc,          \* per seed: where its map_url task is
    mret,         \* per seed: what its map_url task returned
    urls,         \* main's urls: the set map_urls returned
    spc,          \* where scrapeSite is
    queue,        \* the items of the asyncio.Queue, head first
    unfinished,   \* the queue's count of unfinished tasks (put minus task_done)
    results,      \* scrapeSite's results list
    published,    \* for each entry of results, the URL it was scraped from
    wpc,          \* per worker task: where it is
    wurl,         \* per worker task: its local url
    file,         \* the lines of output.jsonl
    rpc,          \* where the render operation is
    rfn,          \* which render operation runs
    rurl,         \* the url being rendered
    ridle,        \* whether the page reaches network-idle before the timeout
    rpage,        \* the content the page has materialized
    rret,         \* what the render operation returned / captured
    fpc,          \* where the single fetch + scrape_url call is
    furl,         \* the url being fetched
    fnet,         \* what the network does with the request
    fret,         \* what fetch returned
    frec,         \* what scrape_url returned
    hpc,          \* where the call of scrape_url on the headings document is
    hdoc,         \* the heading elements of the document, in document order
    hres,         \* the headings list scrape_url returned
    tpc,          \* where fetch_text is
    turl,         \* the url fetch_text is called with
    tstatic,      \* what requests.get does for that url
    trender,      \* what the Playwright path does for that url
    tcalls,       \* the paths fetch_text has tried, in order
    tret,         \* what fetch_text returned
    kpc,          \* where check_static_dynamic is
    kurl,         \* the url it is called with
    kraw,         \* what fetch returns for that url: None or a text of some length
    kjs,          \* what fetch_with_playwright returns for it: a str of some length
    kverdict,     \* what check_static_dynamic printed, or the exception it raised
    cgraph,       \* the site: for each path, the hrefs of the page's anchors
    cbase,        \* the start URL, which __main__ also passes as base_url
    cdepth,       \* the depth argument of the first call
    cstack,       \* the active calls of scrape_to_file, the first call first
    cvisited,     \* the global visited_urls
    cadded,       \* each visited_urls.add so far: the URL and how many links led to it
    cfetched,     \* the URLs fetch_text was called with, in order
    cwritten,     \* the URLs whose text was written to the output file, in order
    cfailed       \* whether some request of the run has failed

pipeVars == <<seeds, num_workers, web, pc, mpc, mret, urls, spc, queue,
              unfinished, results, published, wpc, wurl, file>>
renderVars == <<rpc, rfn, rurl, ridle, rpage, rret>>
fetchVars == <<fpc, furl, fnet, fret, frec>>
headVars == <<hpc, hdoc, hres>>
textVars == <<tpc, turl, tstatic, trender, tcalls, tret>>
classVars == <<kpc, kurl, kraw, kjs, kverdict>>
crawlVars == <<cgraph, cbase, cdepth, cstack, cvisited, cadded, cfetched,
               cwritten, cfailed>>
vars == <<pipeVars, renderVars, fetchVars, headVars, textVars, classVars,
          crawlVars>>

\* What the actions of one part leave alone of the other parts.
offPipeVars == <<renderVars, fetchVars, headVars, textVars, classVars, crawlVars>>
offRenderVars == <<pipeVars, fetchVars, headVars, textVars, classVars, crawlVars>>
offFetchVars == <<pipeVars, renderVars, headVars, textVars, classVars, crawlVars>>
offHeadVars == <<pipeVars, renderVars, fetchVars, textVars, classVars, crawlVars>>
offTextVars == <<pipeVars, renderVars, fetchVars, headVars, classVars, crawlVars>>
offClassVars == <<pipeVars, renderVars, fetchVars, headVars, textVars, crawlVars>>
offCrawlVars == <<pipeVars, renderVars, fetchVars, headVars, textVars, classVars>>

----------------------------------------------------------------------------
(* Bounds of the model. *)

MaxSeeds == 2      \* at most this many seeds are passed to map_urls
MaxWorkers == 2    \* num_workers ranges over 1..MaxWorkers
MaxUrls == 3       \* the seeds' pages link to at most this many distinct URLs

----------------------------------------------------------------------------
(* Values. *)

None == [type |-> "NoneType"]

\* The Python dict {}.
EmptyDict == [k \in {} |-> k]

\* The str "" as an HTML text.
EmptyText == [type |-> "str", empty |-> TRUE]

\* dict.get(key, default)
Get(d, key, default) == IF key \in DOMAIN d THEN d[key] ELSE default

Whitespace == {" ", "\n", "\t"}

RECURSIVE LStrip(_)
LStrip(s) == IF s # <<>> /\ Head(s) \in Whitespace THEN LStrip(Tail(s)) ELSE s

RECURSIVE RStrip(_)
RStrip(s) ==
    IF s # <<>> /\ s[Len(s)] \in Whitespace THEN RStrip(SubSeq(s, 1, Len(s) - 1)) ELSE s

\* str.strip()
Strip(s) == RStrip(LStrip(s))

\* Tag.get_text(separator="\n", strip=True): the stripped, non-empty text
\* runs joined by the separator.
RECURSIVE JoinRuns(_)
JoinRuns(runs) ==
    IF runs = <<>> THEN <<>>
    ELSE LET t == Strip(Head(runs))
             rest == JoinRuns(Tail(runs))
         IN  IF t = <<>> THEN rest
             ELSE IF rest = <<>> THEN t
             ELSE t \o <<"\n">> \o rest

RECURSIVE ConcatRuns(_)
ConcatRuns(runs) ==
    IF runs = <<>> THEN <<>>
    ELSE LET t == Strip(Head(runs)) IN t \o ConcatRuns(Tail(runs))

\* Tag.get_text(strip=True): the stripped runs joined by "".
GetTextStrip(runs) == ConcatRuns(runs)

----------------------------------------------------------------------------
(* The pages of the modelled web. *)

SeedList == << "https://example.test/a", "https://example.test/a/",
               "https://example.test/", "https://example.test/c",
               "https://example.test/d" >>

DocA == [ type     |-> "str",
          anchors  |-> << "/b", "/a#frag" >>,
          title    |-> << << " ", "H", "i", " " >> >>,
          metas    |-> << [name |-> "description", property |-> "", content |-> << "o", "l", "d" >>],
                          [name |-> "", property |-> "og:title", content |-> << " ", "T" >>],
                          [name |-> "", property |-> "", content |-> << "x" >>],
                          [name |-> "description", property |-> "p", content |-> << "d", " " >>] >>,
          headings |-> << [level |-> 2, runs |-> << << "X" >> >>],
                          [level |-> 1, runs |-> << << " ", "Y" >> >>],
                          [level |-> 1, runs |-> << << " " >> >>] >>,
          body     |-> << << << "X" >>, << " ", "Y" >>, << " " >> >> >>,
          text     |-> << << "H", "i" >>, << "X" >>, << " ", "Y" >>, << " " >> >> ]

DocB == [ type     |-> "str",
          anchors  |-> << "b", "b" >>,
          title    |-> << >>,
          metas    |-> << >>,
          headings |-> << >>,
          body     |-> << >>,
          text     |-> << << "Z" >> >> ]

Docs == {DocA, DocB}

\* What fetch can return: None after an exception, else the response text.
FetchOutcomes == {None, EmptyText} \cup Docs

\* What fetch returns for the URLs found on the seeds' pages: a failure, an
\* empty text or a page with every field set.  One page is enough here, the
\* workers never look at the anchors.
LeafOutcomes == {None, EmptyText, DocA}

\* Python's truth value of fetch's return value ("if not html").
Truthy(html) == html # None /\ html # EmptyText

----------------------------------------------------------------------------
(* scraperV2.py: the pure parts. *)

\* map_url after its fetch returned html: None when nothing was retrieved,
\* else the set of f'{url}{href}' over the anchors that carry an href.
map_url(url, html) ==
    IF ~Truthy(html) THEN None
    ELSE [type |-> "set",
          items |-> {url \o html.anchors[i] : i \in 1..Len(html.anchors)}]

\* key = meta.get("name") or meta.get("property")
MetaKey(m) == IF m.name # "" THEN m.name ELSE m.property

\* The meta_tags dict: a later element overwrites an earlier one's key.
MetaTags(metas) ==
    LET keyed == {i \in 1..Len(metas) : MetaKey(metas[i]) # ""}
        keys == {MetaKey(metas[i]) : i \in keyed}
        last(k) == CHOOSE i \in keyed :
                      /\ MetaKey(metas[i]) = k
                      /\ \A j \in keyed : MetaKey(metas[j]) = k => j <= i
    IN  [k \in keys |-> Strip(metas[last(k)].content)]

\* The headings of one level, in document order, empty texts left out.
RECURSIVE HeadingsOfLevel(_, _)
HeadingsOfLevel(hs, level) ==
    IF hs = <<>> THEN <<>>
    ELSE LET text == GetTextStrip(Head(hs).runs)
             rest == HeadingsOfLevel(Tail(hs), level)
         IN  IF Head(hs).level = level /\ text # <<>> THEN <<text>> \o rest ELSE rest

\* The headings in document order, whatever their level.
RECURSIVE HeadingsInDocumentOrder(_, _)
HeadingsInDocumentOrder(hs, level) ==
    IF hs = <<>> THEN <<>>
    ELSE LET text == GetTextStrip(Head(hs).runs)
             rest == HeadingsInDocumentOrder(Tail(hs), level)
         IN  IF text # <<>> THEN <<text>> \o rest ELSE rest

\* for level in range(1, 7): the headings of level 1, then of level 2, ...
RECURSIVE HeadingsFrom(_, _)
HeadingsFrom(hs, level) ==
    IF level > 6 THEN <<>>
    ELSE HeadingsOfLevel(hs, level) \o HeadingsFrom(hs, level + 1)

\* scrape_url after its fetch returned html.
scrape_url(html) ==
    IF ~Truthy(html) THEN EmptyDict
    ELSE [title    |-> IF html.title # <<>> /\ html.title[1] # <<>>
                       THEN Strip(html.title[1]) ELSE <<>>,
          meta     |-> MetaTags(html.metas),
          headings |-> HeadingsFrom(html.headings, 1),
          content  |-> IF html.body # <<>> THEN JoinRuns(html.body[1])
                       ELSE JoinRuns(html.text)]

\* Chunks numbered from 1, as enumerate(results, 1) would.
structured_chunk_from_one(idx, result) ==
    [chunk_id |-> idx + 1,
     title    |-> Get(result, "title", <<>>),
     content  |-> Get(result, "content", <<>>),
     metadata |-> Get(result, "metadata", EmptyDict)]

\* The chunk export_results_to_jsonl makes of the result at index idx.
structured_chunk(idx, result) ==
    [chunk_id |-> idx,
     title    |-> Get(result, "title", <<>>),
     content  |-> Get(result, "content", <<>>),
     metadata |-> Get(result, "metadata", EmptyDict)]

\* The lines export_results_to_jsonl writes: one chunk per result, in order.
export_results_to_jsonl(rs) ==
    [i \in 1..Len(rs) |-> structured_chunk(i - 1, rs[i])]

\* The orders in which "for url in urls" can visit a set.
Orders(S) ==
    {q \in [1..Cardinality(S) -> S] : \A i, j \in 1..Cardinality(S) : q[i] = q[j] => i = j}

----------------------------------------------------------------------------
(* The pipeline: main, map_urls, scrapeSite, worker. *)

Pending == [type |-> "pending"]

\* One task more than asked for.
WorkersOneMore == 1..(num_workers + 1)

\* The worker tasks scrapeSite creates: range(num_workers).
Workers == 1..num_workers

\* All URLs the seeds' pages can yield under an assignment of pages to seeds.
Discovered(S, w) ==
    UNION {IF Truthy(w[s]) THEN map_url(s, w[s]).items ELSE {} : s \in S}

PipeInit ==
    /\ \E n \in 0..MaxSeeds : seeds = {SeedList[i] : i \in 1..n}
    /\ num_workers \in 1..MaxWorkers
    /\ web \in [seeds -> FetchOutcomes]
    /\ Cardinality(Discovered(seeds, web)) <= MaxUrls
    /\ pc = "map_urls"
    /\ mpc = [s \in seeds |-> "created"]
    /\ mret = [s \in seeds |-> Pending]
    /\ urls = {}
    /\ spc = "idle"
    /\ queue = <<>>
    /\ unfinished = 0
    /\ results = <<>>
    /\ published = <<>>
    /\ wpc = [w \in Workers |-> "none"]
    /\ wurl = [w \in Workers |-> ""]
    /\ file = <<>>

RenderIdle ==
    /\ rpc = "idle"
    /\ rfn = "none"
    /\ rurl = ""
    /\ ridle = TRUE
    /\ rpage = <<>>
    /\ rret = None

\* The pipeline before main has started anything.
PipeIdle ==
    /\ seeds = {}
    /\ num_workers = 1
    /\ web = <<>>
    /\ pc = "idle"
    /\ mpc = <<>>
    /\ mret = <<>>
    /\ urls = {}
    /\ spc = "idle"
    /\ queue = <<>>
    /\ unfinished = 0
    /\ results = <<>>
    /\ published = <<>>
    /\ wpc = [w \in Workers |-> "none"]
    /\ wurl = [w \in Workers |-> ""]
    /\ file = <<>>

FetchIdle ==
    /\ fpc = "idle"
    /\ furl = ""
    /\ fnet = None
    /\ fret = None
    /\ frec = EmptyDict

HeadIdle ==
    /\ hpc = "idle"
    /\ hdoc = <<>>
    /\ hres = <<>>

TextIdle ==
    /\ tpc = "idle"
    /\ turl = ""
    /\ tstatic = None
    /\ trender = None
    /\ tcalls = <<>>
    /\ tret = <<>>

ClassIdle ==
    /\ kpc = "idle"
    /\ kurl = ""
    /\ kraw = None
    /\ kjs = None
    /\ kverdict = ""

CrawlIdle ==
    /\ cgraph = <<>>
    /\ cbase = None
    /\ cdepth = 0
    /\ cstack = <<>>
    /\ cvisited = {}
    /\ cadded = <<>>
    /\ cfetched = <<>>
    /\ cwritten = <<>>
    /\ cfailed = FALSE

Init ==
    /\ PipeInit
    /\ RenderIdle
    /\ FetchIdle
    /\ HeadIdle
    /\ TextIdle
    /\ ClassIdle
    /\ CrawlIdle

\* asyncio.gather starts the map_url task of seed s: it runs up to its
\* await of fetch.
MapUrlStart(s) ==
    /\ pc = "map_urls"
    /\ mpc[s] = "created"
    /\ mpc' = [mpc EXCEPT ![s] = "fetching"]
    /\ UNCHANGED <<seeds, num_workers, web, pc, mret, urls, spc, queue,
                   unfinished, results, published, wpc, wurl, file>>
    /\ UNCHANGED offPipeVars

\* The fetch of seed s returns and map_url runs to its return.
MapUrlReturn(s) ==
    /\ pc = "map_urls"
    /\ mpc[s] = "fetching"
    /\ mpc' = [mpc EXCEPT ![s] = "returned"]
    /\ mret' = [mret EXCEPT ![s] = map_url(s, web[s])]
    /\ UNCHANGED <<seeds, num_workers, web, pc, urls, spc, queue,
                   unfinished, results, published, wpc, wurl, file>>
    /\ UNCHANGED offPipeVars

\* gather returned: map_urls iterates the results.  "for url in result" on a
\* None result raises TypeError, which nothing catches: main ends with it.
MapUrlsCollect ==
    /\ pc = "map_urls"
    /\ \A s \in seeds : mpc[s] = "returned"
    /\ IF \E s \in seeds : mret[s] = None
       THEN /\ pc' = "crashed"
            /\ urls' = urls
       ELSE /\ pc' = "scrapeSite"
            /\ urls' = UNION {mret[s].items : s \in seeds}
    /\ UNCHANGED <<seeds, num_workers, web, mpc, mret, spc, queue,
                   unfinished, results, published, wpc, wurl, file>>
    /\ UNCHANGED offPipeVars

\* scrapeSite up to its await of queue.join(): the puts, then the tasks.
\* main passes the set map_urls returned, so the str branch is not taken and
\* the puts visit the set in any order.
ScrapeSiteStart ==
    /\ pc = "scrapeSite"
    /\ spc = "idle"
    /\ queue' \in Orders(urls)
    /\ unfinished' = Cardinality(urls)
    /\ results' = <<>>
    /\ wpc' = [w \in Workers |-> "created"]
    /\ spc' = "join"
    /\ UNCHANGED <<seeds, num_workers, web, pc, mpc, mret, urls,
                   published, wurl, file>>
    /\ UNCHANGED offPipeVars

\* An event loop that lets other tasks run at every await.
YieldsAtEveryAwait(v) == FALSE

\* Task v is between its test "not queue.empty()" and the return of
\* "await queue.get()": the test is synchronous and get does not suspend on
\* a queue that is not empty, so v keeps the event loop and no other task
\* runs.
HoldsLoop(v) == wpc[v] = "get"

\* No worker task but w is keeping the event loop.
LoopFree(w) == \A v \in Workers \ {w} : ~HoldsLoop(v)

\* A join that waits for the queue to be empty, not for the task_done calls.
JoinReadyWhenEmpty == queue = <<>>

\* queue.join() returns once every put item has been task_done.
JoinReady == unfinished = 0

ScrapeSiteJoin ==
    /\ spc = "join"
    /\ JoinReady
    /\ LoopFree(0)
    /\ spc' = "cancel"
    /\ UNCHANGED <<seeds, num_workers, web, pc, mpc, mret, urls, queue,
                   unfinished, results, published, wpc, wurl, file>>
    /\ UNCHANGED offPipeVars

\* The cancel loop and the return: every task that has not finished is
\* cancelled where it stands.
ScrapeSiteCancel ==
    /\ spc = "cancel"
    /\ LoopFree(0)
    /\ wpc' = [w \in Workers |-> IF wpc[w] = "done" THEN "done" ELSE "cancelled"]
    /\ spc' = "returned"
    /\ pc' = "export"
    /\ UNCHANGED <<seeds, num_workers, web, mpc, mret, urls, queue,
                   unfinished, results, published, wurl, file>>
    /\ UNCHANGED offPipeVars

WorkerRuns(w) == spc \in {"join", "cancel"} /\ wpc[w] \in {"created", "loop"}

\* A get that reads the head and leaves it in the queue.
QueueAfterPeek(q) == q

\* What queue.get() leaves in the queue.
QueueAfterGet(q) == Tail(q)

\* "while not queue.empty(): url = await queue.get()": get does not suspend
\* on a non-empty queue, so test and get are one step.
WorkerGet(w) ==
    /\ WorkerRuns(w)
    /\ queue # <<>>
    /\ wurl' = [wurl EXCEPT ![w] = Head(queue)]
    /\ queue' = QueueAfterGet(queue)
    /\ wpc' = [wpc EXCEPT ![w] = "scraping"]
    /\ UNCHANGED <<seeds, num_workers, web, pc, mpc, mret, urls, spc,
                   unfinished, results, published, file>>
    /\ UNCHANGED offPipeVars

\* The loop test fails: the worker returns.
WorkerExit(w) ==
    /\ WorkerRuns(w)
    /\ LoopFree(w)
    /\ queue = <<>>
    /\ wpc' = [wpc EXCEPT ![w] = "done"]
    /\ UNCHANGED <<seeds, num_workers, web, pc, mpc, mret, urls, spc, queue,
                   unfinished, results, published, wurl, file>>
    /\ UNCHANGED offPipeVars

\* An append that skips the empty result of a failed fetch.
AppendedIfFetched(rs, text) == IF text = EmptyDict THEN rs ELSE Append(rs, text)

\* What results.append(scraped_text) makes of the list.
Appended(rs, text) == Append(rs, text)

\* scrape_url(url) returns, its fetch having given any of the outcomes, and
\* results.append(scraped_text) follows.
WorkerAppend(w) ==
    /\ spc \in {"join", "cancel"}
    /\ wpc[w] = "scraping"
    /\ LoopFree(w)
    /\ \E html \in LeafOutcomes : results' = Appended(results, scrape_url(html))
    /\ published' = IF Len(results') > Len(results)
                    THEN Append(published, wurl[w]) ELSE published
    /\ wpc' = [wpc EXCEPT ![w] = "task_done"]
    /\ UNCHANGED <<seeds, num_workers, web, pc, mpc, mret, urls, spc, queue,
                   unfinished, wurl, file>>
    /\ UNCHANGED offPipeVars

\* queue.task_done().  The local url is dead from here to the next get: the
\* model clears it.
WorkerTaskDone(w) ==
    /\ spc \in {"join", "cancel"}
    /\ wpc[w] = "task_done"
    /\ LoopFree(w)
    /\ unfinished > 0
    /\ unfinished' = unfinished - 1
    /\ wpc' = [wpc EXCEPT ![w] = "loop"]
    /\ wurl' = [wurl EXCEPT ![w] = ""]
    /\ UNCHANGED <<seeds, num_workers, web, pc, mpc, mret, urls, spc, queue,
                   results, published, file>>
    /\ UNCHANGED offPipeVars

\* main's call of export_results_to_jsonl(results, "output.jsonl")
Export ==
    /\ pc = "export"
    /\ file' = export_results_to_jsonl(results)
    /\ pc' = "done"
    /\ UNCHANGED <<seeds, num_workers, web, mpc, mret, urls, spc, queue,
                   unfinished, results, published, wpc, wurl>>
    /\ UNCHANGED offPipeVars

Next ==
    \/ \E s \in seeds : MapUrlStart(s)
    \/ \E s \in seeds : MapUrlReturn(s)
    \/ MapUrlsCollect
    \/ ScrapeSiteStart
    \/ ScrapeSiteJoin
    \/ ScrapeSiteCancel
    \/ \E w \in Workers : WorkerGet(w)
    \/ \E w \in Workers : WorkerExit(w)
    \/ \E w \in Workers : WorkerAppend(w)
    \/ \E w \in Workers : WorkerTaskDone(w)
    \/ Export

Spec == Init /\ [][Next]_vars

----------------------------------------------------------------------------
(* The render operations: scraperV2.fetch_with_playwright, which returns   *)
(* the page's content, and sc.capture_high_detail_screenshot, which        *)
(* captures the page.  The page materializes piece by piece while goto     *)
(* waits for network-idle; ridle says whether idle comes before the        *)
(* timeout of the wait.                                                    *)

MaxPage == 2       \* the page materializes in at most this many pieces

Pieces == {"<p>1</p>", "<p>2</p>"}

RenderFns == {"fetch_with_playwright", "capture_high_detail_screenshot"}

\* f"Playwright failed: {e}"
PlaywrightFailed(e) == "Playwright failed: " \o e

\* The PNG page.screenshot writes: a picture of the content as it stands.
Screenshot(content) == [type |-> "png", shows |-> content]

RenderInit ==
    /\ seeds = {}
    /\ num_workers = 1
    /\ web = <<>>
    /\ pc = "render"
    /\ mpc = <<>>
    /\ mret = <<>>
    /\ urls = {}
    /\ spc = "idle"
    /\ queue = <<>>
    /\ unfinished = 0
    /\ results = <<>>
    /\ published = <<>>
    /\ wpc = [w \in Workers |-> "none"]
    /\ wurl = [w \in Workers |-> ""]
    /\ file = <<>>
    /\ rpc = "start"
    /\ rfn \in RenderFns
    /\ \E i \in 1..MaxSeeds : rurl = SeedList[i]
    /\ ridle \in BOOLEAN
    /\ rpage = ""
    /\ rret = None
    /\ FetchIdle
    /\ HeadIdle
    /\ TextIdle
    /\ ClassIdle
    /\ CrawlIdle

\* chromium.launch and new_page succeed; goto begins.
RenderLaunch ==
    /\ rpc = "start"
    /\ rpc' = "goto"
    /\ UNCHANGED <<rfn, rurl, ridle, rpage, rret>>
    /\ UNCHANGED offRenderVars

\* The browser cannot be launched.  fetch_with_playwright catches the
\* exception and returns the message; capture_high_detail_screenshot has no
\* handler around the launch and raises.
RenderLaunchFail ==
    /\ rpc = "start"
    /\ IF rfn = "fetch_with_playwright"
       THEN /\ rpc' = "returned"
            /\ rret' = PlaywrightFailed("launch")
       ELSE /\ rpc' = "raised"
            /\ rret' = rret
    /\ UNCHANGED <<rfn, rurl, ridle, rpage>>
    /\ UNCHANGED offRenderVars

\* The page materializes one more piece, during goto or during the pause
\* that follows the timeout in capture_high_detail_screenshot.
PageLoad ==
    /\ rpc \in {"goto", "sleep"}
    /\ Len(rpage) < MaxPage * Len("<p>1</p>")
    /\ \E piece \in Pieces : rpage' = rpage \o piece
    /\ UNCHANGED <<rpc, rfn, rurl, ridle, rret>>
    /\ UNCHANGED offRenderVars

\* The network goes idle in time: goto returns.
GotoSettled ==
    /\ rpc = "goto"
    /\ ridle
    /\ rpc' = "loaded"
    /\ UNCHANGED <<rfn, rurl, ridle, rpage, rret>>
    /\ UNCHANGED offRenderVars

\* What fetch_with_playwright returns when goto raises its TimeoutError.
fetch_with_playwright_timeout(content) == PlaywrightFailed("Timeout 30000ms exceeded.")

\* The wait for network-idle times out.  In fetch_with_playwright goto's own
\* timeout raises and "except Exception" returns the message.  In
\* capture_high_detail_screenshot asyncio.wait_for raises TimeoutError, which
\* is caught; the function pauses and goes on to the screenshot.
GotoTimeout ==
    /\ rpc = "goto"
    /\ ~ridle
    /\ IF rfn = "fetch_with_playwright"
       THEN /\ rpc' = "returned"
            /\ rret' = fetch_with_playwright_timeout(rpage)
       ELSE /\ rpc' = "sleep"
            /\ rret' = rret
    /\ UNCHANGED <<rfn, rurl, ridle, rpage>>
    /\ UNCHANGED offRenderVars

\* asyncio.sleep(0.5) is over.
SleepDone ==
    /\ rpc = "sleep"
    /\ rpc' = "loaded"
    /\ UNCHANGED <<rfn, rurl, ridle, rpage, rret>>
    /\ UNCHANGED offRenderVars

\* page.content() is returned, or page.screenshot() is taken.
RenderFinish ==
    /\ rpc = "loaded"
    /\ rret' = IF rfn = "fetch_with_playwright" THEN rpage ELSE Screenshot(rpage)
    /\ rpc' = "returned"
    /\ UNCHANGED <<rfn, rurl, ridle, rpage>>
    /\ UNCHANGED offRenderVars

RenderNext ==
    \/ RenderLaunch
    \/ RenderLaunchFail
    \/ PageLoad
    \/ GotoSettled
    \/ GotoTimeout
    \/ SleepDone
    \/ RenderFinish

RenderSpec == RenderInit /\ [][RenderNext]_vars

----------------------------------------------------------------------------
(* scraperV2.fetch, and scrape_url on what it returns: one call, for each   *)
(* thing the network can do with the request.                               *)

\* HTTP status codes of a response: success, client errors, server errors.
Statuses == {200, 403, 404, 500, 503}

\* The request times out, the connection fails, or a response arrives with
\* a status and a body.
NetOutcomes ==
    {[kind |-> "timeout"], [kind |-> "client_error"]}
    \cup {[kind |-> "response", status |-> st, body |-> b] :
             st \in Statuses, b \in {EmptyText} \cup Docs}

\* Whether "async with session.get(url) as response" raises: the session is
\* made without raise_for_status, so a response never raises, whatever its
\* status.
GetRaises(net) == net.kind # "response"

\* fetch: the text of the response, or None after a caught exception.
fetch(net) == IF GetRaises(net) THEN None ELSE net.body

FetchInit ==
    /\ PipeIdle
    /\ RenderIdle
    /\ fpc = "start"
    /\ \E i \in 1..MaxSeeds : furl = SeedList[i]
    /\ fnet \in NetOutcomes
    /\ fret = None
    /\ frec = EmptyDict
    /\ HeadIdle
    /\ TextIdle
    /\ ClassIdle
    /\ CrawlIdle

\* scrape_url calls fetch, which sends the request and awaits the answer.
FetchRequest ==
    /\ fpc = "start"
    /\ fpc' = "awaiting"
    /\ UNCHANGED <<furl, fnet, fret, frec>>
    /\ UNCHANGED offFetchVars

\* The wait ends in an exception: one of the except clauses prints and
\* fetch falls off its end, returning None.
FetchCaught ==
    /\ fpc = "awaiting"
    /\ GetRaises(fnet)
    /\ fret' = fetch(fnet)
    /\ fpc' = "returned"
    /\ UNCHANGED <<furl, fnet, frec>>
    /\ UNCHANGED offFetchVars

\* A response arrives and fetch returns its text.
FetchText ==
    /\ fpc = "awaiting"
    /\ ~GetRaises(fnet)
    /\ fret' = fetch(fnet)
    /\ fpc' = "returned"
    /\ UNCHANGED <<furl, fnet, frec>>
    /\ UNCHANGED offFetchVars

\* scrape_url goes on with what fetch returned.
FetchScrape ==
    /\ fpc = "returned"
    /\ frec' = scrape_url(fret)
    /\ fpc' = "scraped"
    /\ UNCHANGED <<furl, fnet, fret>>
    /\ UNCHANGED offFetchVars

FetchNext ==
    \/ FetchRequest
    \/ FetchCaught
    \/ FetchText
    \/ FetchScrape

FetchSpec == FetchInit /\ [][FetchNext]_vars

----------------------------------------------------------------------------
(* scrape_url's headings, for each short sequence of heading elements.      *)

MaxHeadings == 3   \* the document has at most this many heading elements

\* Heading elements: a level and one text, which may be blank or padded.
HeadingElems ==
    {[level |-> l, runs |-> <<t>>] :
        l \in {1, 2, 6}, t \in {<<"X">>, <<" ", "Y">>, <<" ">>}}

\* The documents with n heading elements.
HeadingDocs(n) == [1..n -> HeadingElems]

HeadInit ==
    /\ PipeIdle
    /\ RenderIdle
    /\ FetchIdle
    /\ hpc = "start"
    /\ \E n \in 0..MaxHeadings : hdoc \in HeadingDocs(n)
    /\ hres = <<>>
    /\ TextIdle
    /\ ClassIdle
    /\ CrawlIdle

\* scrape_url runs on a fetched page with these headings.
HeadScrape ==
    /\ hpc = "start"
    /\ hres' = scrape_url([DocB EXCEPT !.headings = hdoc]).headings
    /\ hpc' = "done"
    /\ UNCHANGED hdoc
    /\ UNCHANGED offHeadVars

HeadNext == HeadScrape

HeadSpec == HeadInit /\ [][HeadNext]_vars

----------------------------------------------------------------------------
(* scraper.fetch_text: the static request first, then the Playwright path.  *)
(* A response body is a sequence of elements, each a piece of markup and    *)
(* the text run that follows it.                                            *)

Bodies ==
    { << >>,
      << [markup |-> "<p>", text |-> <<"h", "i", " ">>] >>,
      << [markup |-> "<p>", text |-> <<"h", "i">>], [markup |-> "<script", text |-> << >>] >>,
      << [markup |-> "<SCRIPT", text |-> << >>], [markup |-> "<P>", text |-> <<"h", "i">>] >> }

\* requests.get raises a RequestException, or returns a response.
StaticOutcomes ==
    {[kind |-> "raised"]}
    \cup {[kind |-> "response", ok |-> o, body |-> b] : o \in BOOLEAN, b \in Bodies}

\* The Playwright block raises, or returns the inner text of the body.
RenderOutcomes ==
    {[kind |-> "raised"]}
    \cup {[kind |-> "text", text |-> t] : t \in {<< >>, <<"j", "s">>}}

\* str.lower() on a piece of markup.
Lower(markup) ==
    CASE markup = "<SCRIPT" -> "<script"
      [] markup = "<P>" -> "<p>"
      [] OTHER -> markup

\* "<script" in response.text, without the lower().
ContainsScriptAsWritten(body) == \E i \in 1..Len(body) : body[i].markup = "<script"

\* "<script" in response.text.lower()
ContainsScript(body) == \E i \in 1..Len(body) : Lower(body[i].markup) = "<script"

\* soup.get_text(separator="\n", strip=True) on the response text.
SoupText(body) == JoinRuns([i \in 1..Len(body) |-> body[i].text])

\* Whether the static path returns: the request did not raise, the response
\* is ok and its text holds no script markup.
StaticReturns(static) ==
    /\ static.kind = "response"
    /\ static.ok
    /\ ~ContainsScript(static.body)

TextInit ==
    /\ PipeIdle
    /\ RenderIdle
    /\ FetchIdle
    /\ HeadIdle
    /\ tpc = "start"
    /\ \E i \in 1..MaxSeeds : turl = SeedList[i]
    /\ tstatic \in StaticOutcomes
    /\ trender \in RenderOutcomes
    /\ tcalls = <<>>
    /\ tret = <<>>
    /\ ClassIdle
    /\ CrawlIdle

\* The try block around requests.get: it returns the page's text, or falls
\* through to the Playwright block.
TextStatic ==
    /\ tpc = "start"
    /\ tcalls' = Append(tcalls, "static")
    /\ IF StaticReturns(tstatic)
       THEN /\ tret' = SoupText(tstatic.body)
            /\ tpc' = "returned"
       ELSE /\ tret' = tret
            /\ tpc' = "playwright"
    /\ UNCHANGED <<turl, tstatic, trender>>
    /\ UNCHANGED offTextVars

\* The Playwright block: the body's inner text, or "" after any exception.
TextRender ==
    /\ tpc = "playwright"
    /\ tcalls' = Append(tcalls, "render")
    /\ tret' = IF trender.kind = "text" THEN trender.text ELSE << >>
    /\ tpc' = "returned"
    /\ UNCHANGED <<turl, tstatic, trender>>
    /\ UNCHANGED offTextVars

TextNext ==
    \/ TextStatic
    \/ TextRender

TextSpec == TextInit /\ [][TextNext]_vars

----------------------------------------------------------------------------
(* scraperV2.check_static_dynamic.  Only the lengths of the two texts       *)
(* matter to it, so a text is modelled by its length.                       *)

MaxLen == 2        \* the raw text is at most this long

\* "len(js_html) > len(raw_html) + 500"
Threshold == 500

\* fetch returns None or a text.
RawOutcomes == {[kind |-> "None"]} \cup {[kind |-> "str", len |-> n] : n \in 0..MaxLen}

\* fetch_with_playwright returns the page's content, short or more than the
\* threshold longer than short, or its error message.
JsOutcomes ==
    {[kind |-> "str", len |-> n] : n \in 0..MaxLen}
    \cup {[kind |-> "str", len |-> Threshold + n] : n \in 0..(MaxLen + 1)}
    \cup {[kind |-> "str", len |-> Len(PlaywrightFailed("launch"))]}

\* The test of the if statement.
IsDynamic(js_len, raw_len) == js_len > raw_len + Threshold

ClassInit ==
    /\ PipeIdle
    /\ RenderIdle
    /\ FetchIdle
    /\ HeadIdle
    /\ TextIdle
    /\ kpc = "start"
    /\ \E i \in 1..MaxSeeds : kurl = SeedList[i]
    /\ kraw \in RawOutcomes
    /\ kjs \in JsOutcomes
    /\ kverdict = ""
    /\ CrawlIdle

\* raw_html = await fetch(url)
ClassFetchRaw ==
    /\ kpc = "start"
    /\ kpc' = "raw_fetched"
    /\ UNCHANGED <<kurl, kraw, kjs, kverdict>>
    /\ UNCHANGED offClassVars

\* js_html = await fetch_with_playwright(url)
ClassFetchJs ==
    /\ kpc = "raw_fetched"
    /\ kpc' = "js_fetched"
    /\ UNCHANGED <<kurl, kraw, kjs, kverdict>>
    /\ UNCHANGED offClassVars

\* The if statement and its print.  len(None) raises TypeError.
ClassCompare ==
    /\ kpc = "js_fetched"
    /\ kverdict' = IF kraw.kind = "None" THEN "TypeError"
                   ELSE IF IsDynamic(kjs.len, kraw.len) THEN "DYNAMIC"
                   ELSE "STATIC"
    /\ kpc' = "done"
    /\ UNCHANGED <<kurl, kraw, kjs>>
    /\ UNCHANGED offClassVars

ClassNext ==
    \/ ClassFetchRaw
    \/ ClassFetchJs
    \/ ClassCompare

ClassSpec == ClassInit /\ [][ClassNext]_vars

----------------------------------------------------------------------------
(* scraper.scrape_to_file, the recursive crawler.  A URL is a network       *)
(* location, a path (its segments) and a fragment; an href may lack the     *)
(* location, and its path may be absolute, relative or empty.               *)

MaxDepth == 3      \* the depth argument is at most this
MaxStack == 6      \* calls nest at most this deep (Python's recursion limit)

Url(netloc, path, frag) == [netloc |-> netloc, path |-> path, frag |-> frag]

Href(netloc, abs, path, frag) ==
    [netloc |-> netloc, abs |-> abs, path |-> path, frag |-> frag]

Host == "example.test"

\* https://example.test/a
StartUrl == Url(Host, <<"a">>, "")

\* A base URL on another host than the start URL.
OtherBase == Url("other.test", <<"x">>, "")

\* urllib.parse.urljoin(base, href)
urljoin(base, href) ==
    IF href.netloc # "" THEN Url(href.netloc, href.path, href.frag)
    ELSE IF href.abs THEN Url(base.netloc, href.path, href.frag)
    ELSE IF href.path = <<>> THEN Url(base.netloc, base.path, href.frag)
    ELSE Url(base.netloc, SubSeq(base.path, 1, Len(base.path) - 1) \o href.path, href.frag)

\* A site with a cycle, self-links, a fragment link, a relative link, a link
\* to another host, and pages that link to the same URL.
SiteCycle ==
    [p \in {<<"a">>, <<"b">>, <<"c">>} |->
        CASE p = <<"a">> -> << Href("", TRUE, <<"b">>, ""), Href("", FALSE, <<>>, "frag"),
                               Href("", TRUE, <<"a">>, ""), Href("", FALSE, <<"c">>, "") >>
          [] p = <<"b">> -> << Href("", TRUE, <<"a">>, ""), Href("", TRUE, <<"c">>, ""),
                               Href("other.test", TRUE, <<"x">>, "") >>
          [] p = <<"c">> -> << Href("", TRUE, <<"b">>, ""), Href("", TRUE, <<"c">>, "") >>]

\* A site where /c is linked from /a directly and, earlier on the page, by
\* way of /b; /d is linked from /c only.
SiteDiamond ==
    [p \in {<<"a">>, <<"b">>, <<"c">>, <<"d">>} |->
        CASE p = <<"a">> -> << Href("", TRUE, <<"b">>, ""), Href("", TRUE, <<"c">>, "") >>
          [] p = <<"b">> -> << Href("", TRUE, <<"c">>, "") >>
          [] p = <<"c">> -> << Href("", TRUE, <<"d">>, "") >>
          [] p = <<"d">> -> << >>]

\* A chain of pages.
SiteChain ==
    [p \in {<<"a">>, <<"b">>, <<"c">>, <<"d">>} |->
        CASE p = <<"a">> -> << Href("", TRUE, <<"b">>, "") >>
          [] p = <<"b">> -> << Href("", TRUE, <<"c">>, "") >>
          [] p = <<"c">> -> << Href("", TRUE, <<"d">>, "") >>
          [] p = <<"d">> -> << Href("", TRUE, <<"a">>, "") >>]

Sites == {SiteCycle, SiteDiamond, SiteChain}

\* soup.find_all("a", href=True) on the page the server sends for url: the
\* fragment is not part of the request, and an unknown path has no links.
LinksOf(site, url) ==
    IF url.netloc = Host /\ url.path \in DOMAIN site THEN site[url.path] ELSE << >>

\* A call of scrape_to_file: its arguments and where it is.
Frame(url, depth) == [url |-> url, depth |-> depth, at |-> "enter", links |-> << >>, i |-> 1]

Top == cstack[Len(cstack)]

\* The stack with its top frame replaced.
WithTop(f) == [cstack EXCEPT ![Len(cstack)] = f]

\* The stack after the top call has returned.
Popped == SubSeq(cstack, 1, Len(cstack) - 1)

\* A crawler that forgets to record the URL.
VisitedWithoutAdd(visited, url) == visited

\* A crawler that records the base URL in place of the URL.
VisitedAddsBase(visited, url) == visited \cup {cbase}

\* visited_urls.add(url)
VisitedAfterAdd(visited, url) == visited \cup {url}

\* A first test that looks at the visited set only.
ReturnsAtOnceIfVisited(url, depth, visited) == url \in visited

\* "if url in visited_urls or depth == 0: return"
ReturnsAtOnce(url, depth, visited) == url \in visited \/ depth = 0

\* The test before the recursive call: same network location as the base
\* URL, and not visited.
Follows(full_url, base, visited) ==
    full_url.netloc = base.netloc /\ full_url \notin visited

CrawlInit ==
    /\ PipeIdle
    /\ RenderIdle
    /\ FetchIdle
    /\ HeadIdle
    /\ TextIdle
    /\ ClassIdle
    /\ cgraph \in Sites
    /\ cbase \in {StartUrl, OtherBase}
    /\ cdepth \in (0 - 1)..MaxDepth
    /\ cstack = << Frame(StartUrl, cdepth) >>
    /\ cvisited = {}
    /\ cadded = <<>>
    /\ cfetched = <<>>
    /\ cwritten = <<>>
    /\ cfailed = FALSE

\* The call returns at once: the URL is visited or the depth is used up.
CrawlReturnAtOnce ==
    /\ cstack # <<>>
    /\ Top.at = "enter"
    /\ ReturnsAtOnce(Top.url, Top.depth, cvisited)
    /\ cstack' = Popped
    /\ UNCHANGED <<cgraph, cbase, cdepth, cvisited, cadded, cfetched, cwritten, cfailed>>
    /\ UNCHANGED offCrawlVars

\* The call goes on: the URL is added to visited_urls.
CrawlVisit ==
    /\ cstack # <<>>
    /\ Top.at = "enter"
    /\ ~ReturnsAtOnce(Top.url, Top.depth, cvisited)
    /\ cvisited' = VisitedAfterAdd(cvisited, Top.url)
    /\ cadded' = Append(cadded, [url |-> Top.url, hops |-> Len(cstack) - 1])
    /\ cstack' = WithTop([Top EXCEPT !.at = "fetch"])
    /\ UNCHANGED <<cgraph, cbase, cdepth, cfetched, cwritten, cfailed>>
    /\ UNCHANGED offCrawlVars

\* fetch_text(url) returns the page's text, which is appended to the file,
\* or "", and then nothing is written.
CrawlFetchText ==
    /\ cstack # <<>>
    /\ Top.at = "fetch"
    /\ cfetched' = Append(cfetched, Top.url)
    /\ \E text \in BOOLEAN :
          /\ cwritten' = IF text THEN Append(cwritten, Top.url) ELSE cwritten
          /\ cfailed' = (cfailed \/ ~text)
    /\ cstack' = WithTop([Top EXCEPT !.at = "links"])
    /\ UNCHANGED <<cgraph, cbase, cdepth, cvisited, cadded>>
    /\ UNCHANGED offCrawlVars

\* requests.get(url) succeeds and the anchors are collected.
CrawlLinks ==
    /\ cstack # <<>>
    /\ Top.at = "links"
    /\ cstack' = WithTop([Top EXCEPT !.at = "loop", !.links = LinksOf(cgraph, Top.url)])
    /\ UNCHANGED <<cgraph, cbase, cdepth, cvisited, cadded, cfetched, cwritten, cfailed>>
    /\ UNCHANGED offCrawlVars

\* requests.get(url) raises a RequestException: it is caught and the call
\* returns without following any link.
CrawlLinksFail ==
    /\ cstack # <<>>
    /\ Top.at = "links"
    /\ cfailed' = TRUE
    /\ cstack' = Popped
    /\ UNCHANGED <<cgraph, cbase, cdepth, cvisited, cadded, cfetched, cwritten>>
    /\ UNCHANGED offCrawlVars

\* The next link passes the test: scrape_to_file(full_url, .., depth-1).
CrawlFollow ==
    /\ cstack # <<>>
    /\ Top.at = "loop"
    /\ Top.i <= Len(Top.links)
    /\ Follows(urljoin(cbase, Top.links[Top.i]), cbase, cvisited)
    /\ Len(cstack) < MaxStack
    /\ cstack' = Append(WithTop([Top EXCEPT !.i = Top.i + 1]),
                        Frame(urljoin(cbase, Top.links[Top.i]), Top.depth - 1))
    /\ UNCHANGED <<cgraph, cbase, cdepth, cvisited, cadded, cfetched, cwritten, cfailed>>
    /\ UNCHANGED offCrawlVars

\* The next link fails the test and is passed over.
CrawlSkip ==
    /\ cstack # <<>>
    /\ Top.at = "loop"
    /\ Top.i <= Len(Top.links)
    /\ ~Follows(urljoin(cbase, Top.links[Top.i]), cbase, cvisited)
    /\ cstack' = WithTop([Top EXCEPT !.i = Top.i + 1])
    /\ UNCHANGED <<cgraph, cbase, cdepth, cvisited, cadded, cfetched, cwritten, cfailed>>
    /\ UNCHANGED offCrawlVars

\* The loop over the links is over: the call returns.
CrawlReturn ==
    /\ cstack # <<>>
    /\ Top.at = "loop"
    /\ Top.i > Len(Top.links)
    /\ cstack' = Popped
    /\ UNCHANGED <<cgraph, cbase, cdepth, cvisited, cadded, cfetched, cwritten, cfailed>>
    /\ UNCHANGED offCrawlVars

CrawlNext ==
    \/ CrawlReturnAtOnce
    \/ CrawlVisit
    \/ CrawlFetchText
    \/ CrawlLinks
    \/ CrawlLinksFail
    \/ CrawlFollow
    \/ CrawlSkip
    \/ CrawlReturn

CrawlSpec == CrawlInit /\ [][CrawlNext]_vars

\* The interpreter keeps running the call until it returns.
CrawlLiveSpec == CrawlInit /\ [][CrawlNext]_vars /\ WF_vars(CrawlNext)

----------------------------------------------------------------------------
(* The worker loop with the test "not queue.empty()" and the get taken    *)
(* apart, from the point where scrapeSite awaits queue.join().             *)

WorkerInit ==
    /\ RenderIdle
    /\ FetchIdle
    /\ HeadIdle
    /\ TextIdle
    /\ ClassIdle
    /\ CrawlIdle
    /\ seeds = {}
    /\ web = <<>>
    /\ mpc = <<>>
    /\ mret = <<>>
    /\ num_workers \in 1..MaxWorkers
    /\ \E n \in 0..MaxUrls : urls = {SeedList[i] : i \in 1..n}
    /\ pc = "scrapeSite"
    /\ spc = "join"
    /\ queue \in Orders(urls)
    /\ unfinished = Cardinality(urls)
    /\ results = <<>>
    /\ published = <<>>
    /\ wpc = [w \in Workers |-> "created"]
    /\ wurl = [w \in Workers |-> ""]
    /\ file = <<>>

\* "while not queue.empty()" finds an item in the queue.
WorkerTest(w) ==
    /\ WorkerRuns(w)
    /\ LoopFree(w)
    /\ queue # <<>>
    /\ wpc' = [wpc EXCEPT ![w] = "get"]
    /\ UNCHANGED <<seeds, num_workers, web, pc, mpc, mret, urls, spc, queue,
                   unfinished, results, published, wurl, file>>
    /\ UNCHANGED offPipeVars

\* "url = await queue.get()": the head of the queue, or, on an empty queue,
\* a wait for a put that never comes.
WorkerDequeue(w) ==
    /\ spc \in {"join", "cancel"}
    /\ wpc[w] = "get"
    /\ LoopFree(w)
    /\ IF queue # <<>>
       THEN /\ wurl' = [wurl EXCEPT ![w] = Head(queue)]
            /\ queue' = QueueAfterGet(queue)
            /\ wpc' = [wpc EXCEPT ![w] = "scraping"]
       ELSE /\ wpc' = [wpc EXCEPT ![w] = "blocked"]
            /\ UNCHANGED <<wurl, queue>>
    /\ UNCHANGED <<seeds, num_workers, web, pc, mpc, mret, urls, spc,
                   unfinished, results, published, file>>
    /\ UNCHANGED offPipeVars

WorkerNext ==
    \/ \E w \in Workers : WorkerTest(w)
    \/ \E w \in Workers : WorkerDequeue(w)
    \/ \E w \in Workers : WorkerExit(w)
    \/ \E w \in Workers : WorkerAppend(w)
    \/ \E w \in Workers : WorkerTaskDone(w)
    \/ ScrapeSiteJoin
    \/ ScrapeSiteCancel

WorkerSpec == WorkerInit /\ [][WorkerNext]_vars

----------------------------------------------------------------------------
(* Properties. *)

\* How often x occurs in the sequence q.
Occurrences(q, x) == Cardinality({i \in 1..Len(q) : q[i] = x})

\* The workers that hold url u dequeued and not yet appended.
Holding(u) == {w \in Workers : wpc[w] = "scraping" /\ wurl[w] = u}

\* C1: scrapeSite never gets stuck before it returns, and when it has
\* returned its results hold exactly one entry per enqueued URL, failed
\* fetches included: none lost, none published twice.
ScrapeSiteOneEntryPerUrl ==
    /\ pc = "scrapeSite" => ENABLED Next
    /\ spc = "returned" =>
          /\ Len(results) = Cardinality(urls)
          /\ Len(published) = Len(results)
          /\ \A u \in urls : Occurrences(published, u) = 1

ScrapeSiteOneEntryPerUrlWitness ==
    /\ spc = "returned"
    /\ Cardinality(urls) > num_workers
    /\ num_workers > 1
    /\ \E i, j \in 1..Len(results) : results[i] = EmptyDict /\ results[j] # EmptyDict

\* C2: from the start of scrapeSite on, every mapped URL is in exactly one
\* place, the queue, one worker's hands or the output, and so is processed by
\* at most one worker and at most once; a URL found from several seeds is
\* enqueued once, and nothing goes back into the queue.
NoDoubleProcessing ==
    spc # "idle" =>
        \A u \in urls :
            Occurrences(queue, u) + Cardinality(Holding(u)) + Occurrences(published, u) = 1

NoDoubleProcessingWitness ==
    /\ pc = "done"
    /\ \E s, t \in seeds :
          /\ s # t
          /\ mret[s] # None
          /\ mret[t] # None
          /\ \E u \in mret[s].items \cap mret[t].items : Occurrences(published, u) = 1

\* C3 (as claimed): when the fetch of a seed fails, the run still completes
\* and the links of every other seed are mapped and processed.
FetchFailureNeverAborts ==
    ((\E s \in seeds : web[s] = None) /\ ~ENABLED Next) =>
        /\ pc = "done"
        /\ \A s \in seeds : Truthy(web[s]) =>
              \A u \in map_url(s, web[s]).items : Occurrences(published, u) = 1

\* C4 (as claimed): with the single seed https://example.test/a, whose page
\* links to /b and /a#frag, exactly the URL https://example.test/b is mapped.
FragmentScenarioAdmitsOnlyB ==
    (/\ seeds = {"https://example.test/a"}
     /\ web["https://example.test/a"] = DocA
     /\ pc # "map_urls") => urls = {"https://example.test/b"}

\* C5: the exported lines are one chunk per result, in the order of the
\* results, and their chunk_id values are 0, 1, .., n-1 in that order.
ChunkIdsSequential ==
    pc = "done" =>
        /\ Len(file) = Len(results)
        /\ \A i \in 1..Len(file) :
              /\ file[i].chunk_id = i - 1
              /\ file[i].title = Get(results[i], "title", <<>>)
              /\ file[i].content = Get(results[i], "content", <<>>)

ChunkIdsSequentialWitness ==
    /\ pc = "done"
    /\ Len(file) >= 3
    /\ file[1].content # file[2].content

\* C6 (as claimed): the chunk of a record that scrape_url produced carries the
\* record's title, its content, and its meta mapping as metadata.
ChunkCarriesRecordFields ==
    pc = "done" =>
        \A i \in 1..Len(results) :
            results[i] # EmptyDict =>
                /\ file[i].title = results[i].title
                /\ file[i].content = results[i].content
                /\ file[i].metadata = results[i].meta

\* C7 (as claimed): a render whose wait for network-idle timed out returns
\* the content materialized so far (for the screenshot: a picture of it),
\* neither an exception nor an error value.
DegradeNotFail ==
    (rpc = "returned" /\ ~ridle) =>
        IF rfn = "fetch_with_playwright"
        THEN rret # PlaywrightFailed("launch") => rret = rpage
        ELSE rret = Screenshot(rpage)

\* C8 (as claimed): the seeds being fetched at one time never number more
\* than the concurrency limit.
DiscoveryBoundedByConcurrency ==
    Cardinality({s \in seeds : mpc[s] = "fetching"}) <= num_workers

\* C9: scrapeSite runs exactly num_workers worker tasks, and the URLs taken
\* from the queue and not yet in the results never number more than that.
AtMostNumWorkersInFlight ==
    spc # "idle" =>
        /\ Cardinality({w \in DOMAIN wpc : wpc[w] # "none"}) = num_workers
        /\ (Cardinality(urls) - Len(queue)) - Len(results) <= num_workers

AtMostNumWorkersInFlightWitness ==
    /\ num_workers = 2
    /\ queue # <<>>
    /\ (Cardinality(urls) - Len(queue)) - Len(results) = num_workers

\* C10: no more items are acknowledged than results are appended; scrapeSite
\* reaches its cancel loop only when every enqueued item is acknowledged; and
\* then no worker holds a dequeued URL or is inside a fetch.
CancelOnlyAfterAllPublished ==
    /\ spc # "idle" => Cardinality(urls) - unfinished <= Len(results)
    /\ \A w \in Workers : wpc[w] = "task_done" =>
          Occurrences(published, wurl[w]) = 1
    /\ spc \in {"cancel", "returned"} =>
          /\ unfinished = 0
          /\ Len(results) = Cardinality(urls)
    /\ spc = "cancel" => \A w \in Workers : wpc[w] \in {"created", "loop", "done"}

CancelOnlyAfterAllPublishedWitness ==
    /\ spc = "returned"
    /\ Len(results) >= 2
    /\ \E w \in Workers : wpc[w] = "cancelled"
    /\ \E w \in Workers : wpc[w] = "done"

\* C11 (as claimed): a timeout, a network error and a response with an HTTP
\* error status each make fetch return None, and scrape_url then returns the
\* empty dict.
UnsuccessfulFetchYieldsNothing ==
    (/\ fpc = "scraped"
     /\ \/ fnet.kind \in {"timeout", "client_error"}
        \/ fnet.kind = "response" /\ fnet.status >= 400) =>
        /\ ~Truthy(fret)
        /\ frec = EmptyDict

FetchTextRendersIffStaticUnusable ==
    /\ tcalls # <<>> => tcalls[1] = "static"
    /\ tpc = "returned" =>
          LET unusable ==
                  \/ tstatic.kind = "raised"
                  \/ ~tstatic.ok
                  \/ \E i \in 1..Len(tstatic.body) :
                        tstatic.body[i].markup \in {"<script", "<SCRIPT"}
          IN  /\ tcalls = IF unusable THEN <<"static", "render">> ELSE <<"static">>
              /\ (unusable /\ trender.kind = "raised") => tret = << >>

FetchTextRendersIffStaticUnusableWitness ==
    /\ tpc = "returned"
    /\ tstatic.kind = "response"
    /\ tstatic.ok
    /\ \E i \in 1..Len(tstatic.body) : tstatic.body[i].markup = "<SCRIPT"
    /\ trender.kind = "raised"
    /\ tcalls = <<"static", "render">>
    /\ tret = << >>

\* C14 (as claimed): for every pair of outcomes of the raw fetch and of the
\* render, check_static_dynamic says DYNAMIC when the rendered text is more
\* than 500 characters longer than the raw text, and STATIC otherwise.
ClassifiesEveryPairByLength ==
    kpc = "done" =>
        /\ kverdict \in {"DYNAMIC", "STATIC"}
        /\ kraw.kind = "str" =>
              (kverdict = "DYNAMIC" <=> kjs.len - kraw.len > 500)

----------------------------------------------------------------------------
(* scrape_to_file. *)

\* The run of scrape_to_file is over.
CrawlDone == cbase # None /\ cstack = <<>>

\* No element occurs twice in the sequence.
NoRepeats(seq) == \A i, j \in DOMAIN seq : seq[i] = seq[j] => i = j

\* The URLs added to visited_urls, in order.
AddedUrls == [i \in DOMAIN cadded |-> cadded[i].url]

\* C15: across one run of scrape_to_file a URL is added to visited_urls at
\* most once, and its text is fetched at most once and written to the output
\* file at most once, whatever the link graph.
VisitedFetchedWrittenOnce ==
    /\ NoRepeats(AddedUrls)
    /\ NoRepeats(cfetched)
    /\ NoRepeats(cwritten)

\* A finished run over the site with a cycle, self-links and two pages that
\* link to the same URL, where every page was written.
VisitedFetchedWrittenOnceWitness ==
    /\ CrawlDone
    /\ cgraph = SiteCycle
    /\ cbase = StartUrl
    /\ Len(cwritten) = 4

\* C16: with a start depth d >= 1 every scraped URL was reached by fewer
\* than d followed links, and every scraped URL but the start URL has the
\* base URL's network location; with d = 0 nothing is scraped.
ScrapedWithinDepthOnBaseHost ==
    /\ cdepth >= 1 =>
          \A i \in DOMAIN cadded :
             /\ cadded[i].hops < cdepth
             /\ (cadded[i].url = StartUrl \/ cadded[i].url.netloc = cbase.netloc)
    /\ (cbase # None /\ cdepth = 0) =>
          cadded = <<>> /\ cfetched = <<>> /\ cwritten = <<>>

\* A finished run with depth 2 that scraped a URL one link away from the
\* start while the site also links to another host.
ScrapedWithinDepthOnBaseHostWitness ==
    /\ CrawlDone
    /\ cdepth = 2
    /\ cgraph = SiteCycle
    /\ \E i \in DOMAIN cadded : cadded[i].hops = 1

\* The URLs one followed link away from url.
Linked(url) ==
    { full \in { urljoin(cbase, LinksOf(cgraph, url)[i]) : i \in DOMAIN LinksOf(cgraph, url) } :
         full.netloc = cbase.netloc }

RECURSIVE Within(_)
\* The URLs whose link distance from the start URL is at most n.
Within(n) ==
    IF n <= 0 THEN {StartUrl}
    ELSE Within(n - 1) \cup UNION { Linked(u) : u \in Within(n - 1) }

\* C17: when a run with start depth d >= 1 ends and every fetch succeeded,
\* every same-host URL whose shortest link distance from the start URL is
\* less than d has been scraped.
ScrapesAllWithinDepth ==
    (CrawlDone /\ cdepth >= 1 /\ ~cfailed) => Within(cdepth - 1) \subseteq cvisited

\* Every URL the run can come across.
AllUrls ==
    {StartUrl} \cup
    UNION { { urljoin(cbase, cgraph[p][i]) : i \in DOMAIN cgraph[p] } : p \in DOMAIN cgraph }

\* A call that has passed the first test has added its URL.
Entered(f) == f.at # "enter"

\* C18: scrape_to_file terminates on every finite link graph and for every
\* integer depth, negative ones included: the calls in progress have
\* distinct visited URLs, so the recursion is no deeper than the number of
\* distinct URLs (plus the one call that is about to return at once), and
\* the run ends.
CrawlTerminates ==
    /\ [](cbase # None =>
            /\ Len(cstack) <= Cardinality(AllUrls) + 1
            /\ Len(cstack) < MaxStack
            /\ \A i, j \in DOMAIN cstack :
                  (Entered(cstack[i]) /\ Entered(cstack[j]) /\ cstack[i].url = cstack[j].url) => i = j
            /\ \A i \in DOMAIN cstack : Entered(cstack[i]) => cstack[i].url \in cvisited)
    /\ <>CrawlDone

\* A finished run with a negative depth that scraped every page of the
\* site with a cycle.
CrawlTerminatesWitness ==
    /\ CrawlDone
    /\ cdepth < 0
    /\ cgraph = SiteCycle
    /\ Len(cfetched) = 4

\* C19: no worker ever waits on a get from an empty queue: between a
\* worker's test and its get no other worker runs, so a worker that found
\* the queue non-empty still finds it so at its get and obtains an item,
\* and a worker that has returned found the queue empty; for every number
\* of workers, more workers than URLs included.
NoWorkerBlocksOnGet ==
    spc # "idle" =>
        \A w \in Workers :
            /\ wpc[w] # "blocked"
            /\ wpc[w] = "get" => (queue # <<>> /\ LoopFree(w))
            /\ wpc[w] = "done" => queue = <<>>

\* More workers than URLs: one worker has obtained the only item and another
\* has found the queue empty and returned.
NoWorkerBlocksOnGetWitness ==
    /\ num_workers > Cardinality(urls)
    /\ urls # {}
    /\ \E w, v \in Workers : wpc[w] = "scraping" /\ wpc[v] = "done"

====
